---------------------------- MODULE Spec2Model ----------------------------
(***************************************************************************)
(* The server-side HTTP connection of cpp-netlib                           *)
(* (boost/network/protocol/http/connection.hpp) as a state machine.        *)
(*                                                                         *)
(* A connection owns a socket, a fixed read buffer, a request parser, the  *)
(* request and the response under construction and a strand.  Every        *)
(* asynchronous operation it issues completes through the strand on one of *)
(* the io_service's worker threads.                                        *)
(*                                                                         *)
(* The wire is modelled in units: the request head travels as lexical      *)
(* units (the method, one header line, the empty line ending the head),    *)
(* the body as single octets.  The read buffer holds                       *)
(* BOOST_HTTP_SERVER_BUFFER_SIZE units.  Field contents (method, header    *)
(* names and values) are sequences of characters.                          *)
(***************************************************************************)
EXTENDS Integers, Sequences, FiniteSets, TLC

(***************************************************************************)
(* Bounds of the model.                                                    *)
(***************************************************************************)
\* capacity of buffer_ (connection.hpp:11-13 lets the build choose it)
BOOST_HTTP_SERVER_BUFFER_SIZE == 2
\* width of size_t, in bits
SizeBits == 4
\* longest sequence of octets a peer sends after the request head
MaxPayload == 3

SizeMod == 2 ^ SizeBits
SizeMax == SizeMod - 1

Conn == {1, 2}
Thread == {1, 2}
BufIdx == 1 .. BOOST_HTTP_SERVER_BUFFER_SIZE

(***************************************************************************)
(* Characters and their lower-case forms (boost::to_lower_copy).           *)
(***************************************************************************)
ToLowerChar(ch) ==
    CASE ch = "C" -> "c"
      [] ch = "O" -> "o"
      [] ch = "N" -> "n"
      [] ch = "T" -> "t"
      [] ch = "E" -> "e"
      [] ch = "L" -> "l"
      [] ch = "G" -> "g"
      [] ch = "H" -> "h"
      [] ch = "M" -> "m"
      [] ch = "F" -> "f"
      [] OTHER -> ch

to_lower_copy(s) == [i \in 1 .. Len(s) |-> ToLowerChar(s[i])]

Digit == {"0", "1", "2", "3", "4", "5", "6", "7", "8", "9"}

DigitVal(ch) ==
    CASE ch = "0" -> 0 [] ch = "1" -> 1 [] ch = "2" -> 2 [] ch = "3" -> 3
      [] ch = "4" -> 4 [] ch = "5" -> 5 [] ch = "6" -> 6 [] ch = "7" -> 7
      [] ch = "8" -> 8 [] ch = "9" -> 9

RECURSIVE DecValue(_)
DecValue(ds) ==
    IF ds = <<>> THEN 0
    ELSE 10 * DecValue(SubSeq(ds, 1, Len(ds) - 1)) + DigitVal(ds[Len(ds)])

(***************************************************************************)
(* boost::lexical_cast<size_t>: an optional sign, then one or more digits  *)
(* and nothing else.  A value above the largest size_t throws.  A leading  *)
(* minus sign does not throw: the magnitude is negated in size_t, as the   *)
(* stream extraction of an unsigned number does.                           *)
(***************************************************************************)
lexical_cast(v) ==
    LET signed == Len(v) > 0 /\ v[1] \in {"-", "+"}
        ds     == IF signed THEN Tail(v) ELSE v
    IN  IF ds = <<>> \/ (\E i \in 1 .. Len(ds) : ds[i] \notin Digit)
        THEN [ok |-> FALSE, value |-> 0]
        ELSE IF DecValue(ds) > SizeMax
        THEN [ok |-> FALSE, value |-> 0]
        ELSE [ok |-> TRUE,
              value |-> IF v[1] = "-" THEN (SizeMod - DecValue(ds)) % SizeMod
                        ELSE DecValue(ds)]


(***************************************************************************)
(* Units of the wire and the requests peers send.                          *)
(***************************************************************************)
MethodUnit(m)    == [t |-> "method", name |-> m, value |-> <<>>]
HeaderUnit(n, v) == [t |-> "header", name |-> n, value |-> v]
EndUnit          == [t |-> "end", name |-> <<>>, value |-> <<>>]
Octet(ch)        == [t |-> "octet", name |-> <<ch>>, value |-> <<>>]
BadUnit          == [t |-> "bad", name |-> <<>>, value |-> <<>>]
\* a char of buffer_ that nothing wrote yet: its value is indeterminate
Indeterminate    == [t |-> "indeterminate", name |-> <<>>, value |-> <<>>]

POST   == <<"P", "O", "S", "T">>
PUT    == <<"P", "U", "T">>
GET    == <<"G", "E", "T">>
HEAD   == <<"H", "E", "A", "D">>
DELETE == <<"D", "E", "L", "E", "T", "E">>
Methods == {POST, PUT, GET, HEAD, DELETE}

ContentLengthMixed == <<"C", "o", "n", "t", "e", "n", "t", "-", "L", "e", "n", "g", "t", "h">>
ContentLengthUpper == <<"C", "O", "N", "T", "E", "N", "T", "-", "L", "E", "N", "G", "T", "H">>
ContentLengthLower == <<"c", "o", "n", "t", "e", "n", "t", "-", "l", "e", "n", "g", "t", "h">>
MaxForwards        == <<"M", "a", "x", "-", "F", "o", "r", "w", "a", "r", "d", "s">>

ContentLengthNames == {ContentLengthMixed, ContentLengthUpper, ContentLengthLower}
ContentLengthValues ==
    {<<>>, <<"0">>, <<"0", "0">>, <<"1">>, <<"2">>, <<"3">>,
     <<"a">>, <<"1", "a">>, <<"-", "1">>}

OtherHeader == HeaderUnit(MaxForwards, <<"1">>)
ContentLengthHeaders ==
    {HeaderUnit(n, <<"1">>) : n \in ContentLengthNames}
        \cup {HeaderUnit(ContentLengthMixed, v) : v \in ContentLengthValues}

HeaderLists ==
    {<<>>, <<OtherHeader>>}
        \cup {<<h>> : h \in ContentLengthHeaders}
        \cup {<<OtherHeader, h>> : h \in ContentLengthHeaders}
        \cup {<<HeaderUnit(ContentLengthMixed, <<"2">>),
                HeaderUnit(ContentLengthLower, <<"0">>)>>}

Heads == {<<MethodUnit(m)>> \o hs \o <<EndUnit>> : m \in Methods, hs \in HeaderLists}

\* the octets after the head: "a", "b", "a", ... so that order and origin show
Payload(n) == [i \in 1 .. n |-> Octet(IF i % 2 = 1 THEN "a" ELSE "b")]
Payloads == {Payload(n) : n \in 0 .. MaxPayload}

\* heads that are malformed, or end before the empty line
BrokenHeads ==
    {<<BadUnit>>,
     <<MethodUnit(POST), BadUnit>>,
     <<MethodUnit(GET), OtherHeader, BadUnit, EndUnit>>,
     <<OtherHeader, EndUnit>>,
     <<MethodUnit(POST), HeaderUnit(ContentLengthMixed, <<"1">>)>>}

Streams == {h \o p : h \in Heads, p \in Payloads} \cup BrokenHeads

\* the requests used when several connections run side by side
SmallStreams ==
    {<<MethodUnit(GET), EndUnit>>,
     <<MethodUnit(POST), HeaderUnit(ContentLengthMixed, <<"2">>), EndUnit,
       Octet("a"), Octet("b"), Octet("a")>>}

(***************************************************************************)
(* request_parser::parse_headers.  The parser consumes units from position *)
(* i of the input on, carries its state from call to call and stops at the *)
(* empty line (true), at a malformed unit (false) or at the end of the     *)
(* input (indeterminate); it reports where it stopped.                     *)
(***************************************************************************)
EmptyRequest == [method |-> <<>>, headers |-> <<>>, body |-> <<>>]

RECURSIVE parse_from(_, _, _, _)
parse_from(st, req, input, i) ==
    IF i > Len(input)
    THEN [done |-> "indeterminate", state |-> st, request |-> req, consumed |-> i - 1]
    ELSE LET u == input[i]
         IN  CASE st = "method_start" /\ u.t = "method" ->
                    parse_from("header_line_start",
                               [req EXCEPT !.method = u.name], input, i + 1)
               [] st = "header_line_start" /\ u.t = "header" ->
                    parse_from("header_line_start",
                               [req EXCEPT !.headers =
                                   Append(@, [name |-> u.name, value |-> u.value])],
                               input, i + 1)
               [] st = "header_line_start" /\ u.t = "end" ->
                    [done |-> "true", state |-> "done", request |-> req, consumed |-> i]
               [] OTHER ->
                    [done |-> "false", state |-> "failed", request |-> req, consumed |-> i]

parse_headers(st, req, input) == parse_from(st, req, input, 1)

(***************************************************************************)
(* The state.                                                              *)
(***************************************************************************)
VARIABLES
    started,        \* [Conn -> BOOLEAN]: start() has been called
    wire,           \* socket_: the units the peer sent that no read took yet
    socket_,        \* socket_: "open" or "shutdown"
    buffer_,        \* buffer_: BOOST_HTTP_SERVER_BUFFER_SIZE units
    parser_,        \* parser_: the parser's state
    request_,       \* request_: method, headers, body
    response_,      \* response_: "empty", "bad_request" or what the handler set
    pending,        \* the asynchronous operation outstanding on socket_
    ready,          \* the completion handler posted to wrapper_, not yet run
    running,        \* [Thread -> Conn \cup {0}]: the callback a worker executes
    owner,          \* the creator of the connection still holds its shared_ptr
    use_count,      \* number of shared_ptr that own the connection
    stream,         \* history: everything the peer sends on the connection
    handler_calls,  \* history: number of calls of handler_(request_, response_)
    handler_saw,    \* history: the request passed to handler_
    payloads,       \* history: the payloads of the successful body reads
    tainted,        \* history: an indeterminate char of buffer_ was read
    trace,          \* history: the operations of the connection, in order
    log_calls,      \* history: number of calls of handler_.log
    errors,         \* history: number of completions that carried an error code
    completions     \* history: number of operations the socket completed

conn_vars == <<wire, socket_, buffer_, parser_, request_, response_, pending>>
hist_vars == <<stream, handler_calls, handler_saw, payloads, tainted, trace, log_calls>>
life_vars == <<owner, use_count>>
count_vars == <<errors, completions>>
server_vars == <<started, conn_vars, ready, running, hist_vars, life_vars, count_vars>>

(***************************************************************************)
(* The state of the client's connection manager.  connection_manager.hpp   *)
(* declares its three operations and nothing else; what it keeps is the    *)
(* pool, the cache of resolved addresses and the lock that serialises      *)
(* access to them.                                                         *)
(***************************************************************************)
MaxInstances == 2

Caller == {1, 2}
Instance == 1 .. MaxInstances
Host == {"a.example", "b.example"}
Proxy == "proxy.example"

VARIABLES
    cm_target,      \* [Instance -> target or "none"]: where a connection made goes to
    cm_idle,        \* the pool: the connections that are idle
    cm_held,        \* [Caller -> SUBSET Instance]: the handles a caller has
    cm_closed,      \* the connections closed and discarded
    cm_cache,       \* the hosts whose address is cached
    cm_mutex,       \* the caller inside get_connection, or 0
    cm_call,        \* [Caller -> what its get_connection has selected]
    cm_last,        \* history: the last step of the manager
    cm_discarded    \* history: the connections a reset() found in the pool

manager_vars == <<cm_target, cm_idle, cm_held, cm_closed, cm_cache, cm_mutex,
                  cm_call, cm_last, cm_discarded>>
vars == <<server_vars, manager_vars>>

NoCall == [phase |-> "none", pick |-> 0]
Did(name, dropped) == [name |-> name, dropped |-> dropped]

manager_init ==
    /\ cm_target = [i \in Instance |-> "none"]
    /\ cm_idle = {}
    /\ cm_held = [k \in Caller |-> {}]
    /\ cm_closed = {}
    /\ cm_cache = {}
    /\ cm_mutex = 0
    /\ cm_call = [k \in Caller |-> NoCall]
    /\ cm_last = Did("none", {})
    /\ cm_discarded = {}

NoOp == [op |-> "none", handler |-> "none", bytes_to_read |-> 0, at_least |-> 0]

\* socket_.async_read_some(buffer(buffer_), wrap(bind(h, ..., n, ...)))
AsyncReadSome(h, n) ==
    [op |-> "async_read_some", handler |-> h, bytes_to_read |-> n, at_least |-> 1]

\* async_read(socket_, buffer(buffer_), transfer_at_least(n), wrap(bind(h, ..., n, ...)))
AsyncRead(h, n) ==
    [op |-> "async_read", handler |-> h, bytes_to_read |-> n, at_least |-> n]

\* async_write(socket_, response_.to_buffers(), wrap(bind(handle_write, ...)))
AsyncWrite ==
    [op |-> "async_write", handler |-> "handle_write", bytes_to_read |-> 0, at_least |-> 0]

NoCompletion ==
    [handler |-> "none", ec |-> FALSE, bytes_to_read |-> 0, bytes_transferred |-> 0]

Min(a, b) == IF a < b THEN a ELSE b

\* what reading an indeterminate char of buffer_ may give
Uninit == {Octet("a"), Octet("x")}
\* buffer_ as a read of all of it sees it, g giving the indeterminate chars
buffer_contents(buffer, g) ==
    [i \in BufIdx |-> IF buffer[i] = Indeterminate THEN g[i] ELSE buffer[i]]
HandlerReplies == {"ok", "not_found"}

(***************************************************************************)
(* The state after the connections have been constructed.                  *)
(***************************************************************************)
InitAll ==
    /\ started = [c \in Conn |-> FALSE]
    /\ wire = [c \in Conn |-> <<>>]
    /\ socket_ = [c \in Conn |-> "open"]
    /\ buffer_ = [c \in Conn |-> [i \in BufIdx |-> Indeterminate]]
    /\ parser_ = [c \in Conn |-> "method_start"]
    /\ request_ = [c \in Conn |-> EmptyRequest]
    /\ response_ = [c \in Conn |-> "empty"]
    /\ pending = [c \in Conn |-> NoOp]
    /\ ready = [c \in Conn |-> NoCompletion]
    /\ running = [t \in Thread |-> 0]
    /\ stream = [c \in Conn |-> <<>>]
    /\ handler_calls = [c \in Conn |-> 0]
    /\ handler_saw = [c \in Conn |-> EmptyRequest]
    /\ payloads = [c \in Conn |-> <<>>]
    /\ tainted = [c \in Conn |-> FALSE]
    /\ trace = [c \in Conn |-> <<>>]
    /\ log_calls = [c \in Conn |-> 0]
    /\ owner = [c \in Conn |-> TRUE]
    /\ use_count = [c \in Conn |-> 1]
    /\ errors = [c \in Conn |-> 0]
    /\ completions = [c \in Conn |-> 0]
    /\ manager_init

\* mutant: the handler is bound to the bare this
bare_this(c) == UNCHANGED use_count

\* bind(..., shared_from_this(), ...): the handler of the operation issued
\* owns the connection
shared_from_this(c) == use_count' = [use_count EXCEPT ![c] = @ + 1]

(***************************************************************************)
(* connection::start: the peer's request is one of S.                      *)
(***************************************************************************)
start(c, S) ==
    /\ ~started[c]
    /\ \E w \in S, option_error \in BOOLEAN :
          /\ wire' = [wire EXCEPT ![c] = w]
          /\ stream' = [stream EXCEPT ![c] = w]
          /\ log_calls' = [log_calls EXCEPT ![c] = IF option_error THEN @ + 1 ELSE @]
    /\ started' = [started EXCEPT ![c] = TRUE]
    /\ pending' = [pending EXCEPT ![c] = AsyncReadSome("handle_read_headers", 0)]
    /\ trace' = [trace EXCEPT ![c] = Append(@, "read_headers")]
    /\ shared_from_this(c)
    /\ UNCHANGED <<socket_, buffer_, parser_, request_, response_, ready, running,
                   handler_calls, handler_saw, payloads, tainted, owner, count_vars>>

\* the creator of the connection drops its shared_ptr, start() having returned
release_owner(c) ==
    /\ started[c]
    /\ owner[c]
    /\ owner' = [owner EXCEPT ![c] = FALSE]
    /\ use_count' = [use_count EXCEPT ![c] = @ - 1]
    /\ UNCHANGED <<started, conn_vars, ready, running, hist_vars, count_vars,
                   manager_vars>>

(***************************************************************************)
(* The socket completes the outstanding operation and posts its handler.   *)
(***************************************************************************)
\* a read took the first k units of the wire into buffer_[1 .. k]
read_completes(c) ==
    /\ pending[c].op \in {"async_read_some", "async_read"}
    /\ \E k \in 1 .. Min(BOOST_HTTP_SERVER_BUFFER_SIZE, Len(wire[c])) :
          /\ k >= Min(pending[c].at_least, BOOST_HTTP_SERVER_BUFFER_SIZE)
          /\ buffer_' = [buffer_ EXCEPT ![c] =
                            [i \in BufIdx |-> IF i <= k THEN wire[c][i] ELSE @[i]]]
          /\ wire' = [wire EXCEPT ![c] = SubSeq(@, k + 1, Len(@))]
          /\ ready' = [ready EXCEPT ![c] =
                          [handler |-> pending[c].handler, ec |-> FALSE,
                           bytes_to_read |-> pending[c].bytes_to_read,
                           bytes_transferred |-> k]]
    /\ pending' = [pending EXCEPT ![c] = NoOp]
    /\ completions' = [completions EXCEPT ![c] = @ + 1]
    /\ UNCHANGED <<started, socket_, parser_, request_, response_, running, hist_vars,
                   life_vars, errors>>

write_completes(c) ==
    /\ pending[c].op = "async_write"
    /\ ready' = [ready EXCEPT ![c] =
                    [handler |-> "handle_write", ec |-> FALSE,
                     bytes_to_read |-> 0, bytes_transferred |-> 0]]
    /\ pending' = [pending EXCEPT ![c] = NoOp]
    /\ trace' = [trace EXCEPT ![c] = Append(@, "write_done")]
    /\ completions' = [completions EXCEPT ![c] = @ + 1]
    /\ UNCHANGED <<started, wire, socket_, buffer_, parser_, request_, response_,
                   running, stream, handler_calls, handler_saw, payloads,
                   tainted, log_calls, life_vars, errors>>

\* a transport error: the operation completes with an error code
operation_fails(c) ==
    /\ pending[c].op # "none"
    /\ ready' = [ready EXCEPT ![c] =
                    [handler |-> pending[c].handler, ec |-> TRUE,
                     bytes_to_read |-> pending[c].bytes_to_read,
                     bytes_transferred |-> 0]]
    /\ pending' = [pending EXCEPT ![c] = NoOp]
    /\ errors' = [errors EXCEPT ![c] = @ + 1]
    /\ completions' = [completions EXCEPT ![c] = @ + 1]
    /\ UNCHANGED <<started, wire, socket_, buffer_, parser_, request_, response_,
                   running, hist_vars, life_vars>>

(***************************************************************************)
(* wrapper_: the strand runs a handler of the connection only while no     *)
(* other handler of the connection is running.                             *)
(***************************************************************************)
\* mutant: handlers go to the io_service unwrapped
strand_absent(c) == TRUE

strand_free(c) == \A t \in Thread : running[t] # c

\* worker t takes the posted handler h of connection c and runs it
dispatch_handler(t, c, h) ==
    /\ ready[c].handler = h
    /\ running[t] = 0
    /\ strand_free(c)
    /\ ready' = [ready EXCEPT ![c] = NoCompletion]
    /\ running' = [running EXCEPT ![t] = c]

(***************************************************************************)
(* The ways a completion callback goes on.  Each sets response_, pending,  *)
(* trace, handler_calls, handler_saw and use_count of connection c.        *)
(***************************************************************************)
\* response_ = stock_reply(bad_request); async_write(...)
stock_reply_and_write(c) ==
    /\ response_' = [response_ EXCEPT ![c] = "bad_request"]
    /\ pending' = [pending EXCEPT ![c] = AsyncWrite]
    /\ trace' = [trace EXCEPT ![c] = Append(@, "write")]
    /\ shared_from_this(c)
    /\ UNCHANGED <<handler_calls, handler_saw>>

\* mutant: the handler is called and its response is not written
handler_and_no_write(c, req) ==
    /\ \E reply \in HandlerReplies : response_' = [response_ EXCEPT ![c] = reply]
    /\ handler_calls' = [handler_calls EXCEPT ![c] = @ + 1]
    /\ handler_saw' = [handler_saw EXCEPT ![c] = req]
    /\ trace' = [trace EXCEPT ![c] = Append(@, "handler")]
    /\ UNCHANGED <<pending, use_count>>

\* handler_(request_, response_); async_write(...)
handler_and_write(c, req) ==
    /\ \E reply \in HandlerReplies : response_' = [response_ EXCEPT ![c] = reply]
    /\ handler_calls' = [handler_calls EXCEPT ![c] = @ + 1]
    /\ handler_saw' = [handler_saw EXCEPT ![c] = req]
    /\ pending' = [pending EXCEPT ![c] = AsyncWrite]
    /\ trace' = [trace EXCEPT ![c] = @ \o <<"handler", "write">>]
    /\ shared_from_this(c)

\* issue the read `op`; `what` is "read_headers" or "read_body"
issue_read(c, op, what) ==
    /\ pending' = [pending EXCEPT ![c] = op]
    /\ trace' = [trace EXCEPT ![c] = Append(@, what)]
    /\ shared_from_this(c)
    /\ UNCHANGED <<response_, handler_calls, handler_saw>>

\* the callback returns without issuing anything
nothing_issued ==
    UNCHANGED <<response_, pending, trace, handler_calls, handler_saw, use_count>>

\* mutant: a failed read is tried again
on_read_error_retries(c) ==
    issue_read(c, AsyncReadSome("handle_read_headers", 0), "read_headers")

\* if (!ec) { ... } is skipped: "TODO Log the error?"
on_read_error(c) == nothing_issued

(***************************************************************************)
(* connection::handle_read_headers                                         *)
(***************************************************************************)
is_content_length(header) == to_lower_copy(header.name) = ContentLengthLower

\* find_if(headers.begin(), headers.end(), is_content_length()); Len + 1 is end()
find_content_length(headers) ==
    IF \E i \in 1 .. Len(headers) : is_content_length(headers[i])
    THEN CHOOSE i \in 1 .. Len(headers) :
            /\ is_content_length(headers[i])
            /\ \A j \in 1 .. i - 1 : ~is_content_length(headers[j])
    ELSE Len(headers) + 1

\* request_.method[0] == 'P'
\* every method is taken to carry a body
every_method_has_body(req) == TRUE

method_has_body(req) == req.method[1] = "P"

\* mutant: a missing Content-Length is taken for an empty body
missing_content_length_as_empty_body(c, req) == handler_and_write(c, req)

\* it == request_.headers.end()
missing_content_length(c, req) == stock_reply_and_write(c)

\* lexical_cast<size_t>(it->value) threw
invalid_content_length(c, req) == stock_reply_and_write(c)

\* mutant: the test for an empty body is lost
body_always_expected(content_length) == TRUE

\* content_length != 0
body_expected(content_length) == content_length # 0

\* mutant: the handler is called without waiting for the body
await_body_skipped(c, req, content_length) == handler_and_write(c, req)

\* async_read(socket_, buffer(buffer_), transfer_at_least(content_length), ...)
await_body(c, req, content_length) ==
    issue_read(c, AsyncRead("handle_read_body_contents", content_length), "read_body")

\* if (done) { ... }
headers_complete(c, req) ==
    IF method_has_body(req)
    THEN LET it == find_content_length(req.headers)
         IN  IF it = Len(req.headers) + 1
             THEN missing_content_length(c, req)
             ELSE LET content_length == lexical_cast(req.headers[it].value)
                  IN  IF ~content_length.ok
                      THEN invalid_content_length(c, req)
                      ELSE IF body_expected(content_length.value)
                      THEN await_body(c, req, content_length.value)
                      ELSE handler_and_write(c, req)
    ELSE handler_and_write(c, req)

\* mutant: the next header read is issued twice
parse_incomplete_reads_twice(c) ==
    /\ pending' = [pending EXCEPT ![c] = AsyncReadSome("handle_read_headers", 0)]
    /\ trace' = [trace EXCEPT ![c] = @ \o <<"read_headers", "read_headers">>]
    /\ use_count' = [use_count EXCEPT ![c] = @ + 2]
    /\ UNCHANGED <<response_, handler_calls, handler_saw>>

\* mutant: an incomplete head is answered like a malformed one
parse_incomplete_answered(c) == stock_reply_and_write(c)

\* else { ... }: the parser wants more input
parse_incomplete(c) ==
    issue_read(c, AsyncReadSome("handle_read_headers", 0), "read_headers")

\* mutant: a failed parse is taken for an incomplete one
parse_failed_reads_on(c) == parse_incomplete(c)

\* else if (!done) { ... }
parse_failed(c) == stock_reply_and_write(c)

handle_read_headers(t, c) ==
    /\ dispatch_handler(t, c, "handle_read_headers")
    /\ IF ready[c].ec
       THEN /\ on_read_error(c)
            /\ UNCHANGED <<parser_, request_>>
       ELSE LET parsed == parse_headers(parser_[c], request_[c],
                                        SubSeq(buffer_[c], 1, ready[c].bytes_transferred))
            IN  /\ parser_' = [parser_ EXCEPT ![c] = parsed.state]
                /\ request_' = [request_ EXCEPT ![c] = parsed.request]
                /\ CASE parsed.done = "true" -> headers_complete(c, parsed.request)
                     [] parsed.done = "false" -> parse_failed(c)
                     [] OTHER -> parse_incomplete(c)
    /\ UNCHANGED <<started, wire, socket_, buffer_, stream, payloads, tainted,
                   log_calls, owner, count_vars>>

(***************************************************************************)
(* connection::handle_read_body_contents                                   *)
(***************************************************************************)
\* size_t difference = bytes_to_read - bytes_transferred;
difference(bytes_to_read, bytes_transferred) ==
    (bytes_to_read + SizeMod - bytes_transferred) % SizeMod

\* request_.body.append(buffer_.begin(), buffer_.end());
body_append(body, buffer, bytes_transferred) == body \o buffer

handle_read_body_contents(t, c) ==
    /\ dispatch_handler(t, c, "handle_read_body_contents")
    /\ IF ready[c].ec
       THEN /\ on_read_error(c)
            /\ UNCHANGED <<request_, payloads, tainted>>
       ELSE \E g \in [BufIdx -> Uninit] :
            LET diff == difference(ready[c].bytes_to_read, ready[c].bytes_transferred)
                req  == [request_[c] EXCEPT !.body =
                            body_append(@, buffer_contents(buffer_[c], g),
                                        ready[c].bytes_transferred)]
            IN  /\ request_' = [request_ EXCEPT ![c] = req]
                /\ payloads' = [payloads EXCEPT ![c] =
                                   @ \o SubSeq(buffer_[c], 1, ready[c].bytes_transferred)]
                /\ tainted' = [tainted EXCEPT ![c] =
                                  @ \/ \E i \in BufIdx : buffer_[c][i] = Indeterminate]
                /\ IF diff = 0
                   THEN handler_and_write(c, req)
                   ELSE issue_read(c, AsyncReadSome("handle_read_body_contents", diff),
                                   "read_body")
    /\ UNCHANGED <<started, wire, socket_, buffer_, parser_, stream, log_calls,
                   owner, count_vars>>

(***************************************************************************)
(* connection::handle_write                                                *)
(***************************************************************************)
\* socket_.shutdown(shutdown_both, ignored_ec): the call may fail
\* mutant: the socket is left as it is
shutdown_skipped(c) == UNCHANGED <<socket_, trace>>

shutdown_both(c) ==
    /\ \E ignored_ec \in BOOLEAN :
          socket_' = [socket_ EXCEPT ![c] = IF ignored_ec THEN @ ELSE "shutdown"]
    /\ trace' = [trace EXCEPT ![c] = Append(@, "shutdown")]

handle_write(t, c) ==
    /\ dispatch_handler(t, c, "handle_write")
    /\ IF ready[c].ec
       THEN UNCHANGED <<socket_, trace>>
       ELSE shutdown_both(c)
    /\ UNCHANGED <<started, wire, buffer_, parser_, request_, response_, pending,
                   stream, handler_calls, handler_saw, payloads, tainted,
                   log_calls, life_vars, count_vars>>

\* the callback worker t was executing returns; the handler that was bound
\* to the connection is destroyed with its shared_ptr
callback_returns(t) ==
    /\ running[t] # 0
    /\ running' = [running EXCEPT ![t] = 0]
    /\ use_count' = [use_count EXCEPT ![running[t]] = @ - 1]
    /\ UNCHANGED <<started, conn_vars, ready, hist_vars, owner, count_vars>>

(***************************************************************************)
(* The specifications.  Spec: one connection, one worker, any request of   *)
(* Streams; the creator of the connection lets go of it at any time after  *)
(* start().  SpecMT: two connections and two workers, the requests of      *)
(* SmallStreams; the creator keeps the connections.                        *)
(***************************************************************************)
Step(C, T, S) ==
    /\ \/ \E c \in C : start(c, S)
       \/ \E c \in C : read_completes(c)
       \/ \E c \in C : write_completes(c)
       \/ \E c \in C : operation_fails(c)
       \/ \E c \in C, t \in T : handle_read_headers(t, c)
       \/ \E c \in C, t \in T : handle_read_body_contents(t, c)
       \/ \E c \in C, t \in T : handle_write(t, c)
       \/ \E t \in T : callback_returns(t)
    /\ UNCHANGED manager_vars

Init == InitAll
Next ==
    \/ Step({1}, {1}, Streams)
    \/ release_owner(1)
Spec == Init /\ [][Next]_vars

InitMT == InitAll
NextMT == Step(Conn, Thread, SmallStreams)
SpecMT == InitMT /\ [][NextMT]_vars

(***************************************************************************)
(* The connection manager: get_connection, clear_resolved_cache and reset  *)
(* of connection_manager.hpp, and the return of a handle to the pool.      *)
(* Callers are concurrent; a call takes the lock of the manager.           *)
(***************************************************************************)
\* mutant: the pool is not locked
never_locked == TRUE

unlocked == cm_mutex = 0

\* the proxy takes the place of the request's host
resolve_target(host, use_proxy) == IF use_proxy THEN Proxy ELSE host

\* get_connection, up to the choice of the connection to hand out: the
\* address is looked up in the cache or resolved, then an idle connection to
\* the target is selected or a new one established
get_connection(k, host, use_proxy, cache_resolved) ==
    /\ cm_call[k].phase = "none"
    /\ unlocked
    /\ LET target == resolve_target(host, use_proxy)
           cached == cache_resolved /\ target \in cm_cache
           matching == {i \in cm_idle : cm_target[i] = target}
           fresh == Cardinality({i \in Instance : cm_target[i] # "none"}) + 1
       IN  \E resolved \in (IF cached THEN {TRUE} ELSE BOOLEAN),
              established \in BOOLEAN :
             /\ cm_cache' = IF resolved /\ cache_resolved
                               THEN cm_cache \cup {target} ELSE cm_cache
             /\ IF ~resolved \/ (matching = {} /\ ~established)
                THEN /\ cm_last' = Did("get_connection failed", {})
                     /\ UNCHANGED <<cm_target, cm_mutex, cm_call>>
                ELSE /\ cm_mutex' = k
                     /\ cm_last' = Did("get_connection", {})
                     /\ IF matching # {}
                        THEN /\ \E i \in matching :
                                  cm_call' = [cm_call EXCEPT ![k] =
                                                 [phase |-> "selected", pick |-> i]]
                             /\ UNCHANGED cm_target
                        ELSE /\ fresh \in Instance
                             /\ cm_target' = [cm_target EXCEPT ![fresh] = target]
                             /\ cm_call' = [cm_call EXCEPT ![k] =
                                                [phase |-> "selected", pick |-> fresh]]
    /\ UNCHANGED <<cm_idle, cm_held, cm_closed, cm_discarded>>

\* get_connection returns: the connection selected leaves the pool and goes
\* to the caller
hand_out(k) ==
    /\ cm_call[k].phase = "selected"
    /\ cm_idle' = cm_idle \ {cm_call[k].pick}
    /\ cm_held' = [cm_held EXCEPT ![k] = @ \cup {cm_call[k].pick}]
    /\ cm_call' = [cm_call EXCEPT ![k] = NoCall]
    /\ cm_mutex' = 0
    /\ cm_last' = Did("hand_out", {})
    /\ UNCHANGED <<cm_target, cm_closed, cm_cache, cm_discarded>>

\* the caller is done with a connection: back to the pool after a clean
\* exchange, closed after an I/O error
return_connection(k, i, clean) ==
    /\ i \in cm_held[k]
    /\ unlocked
    /\ cm_held' = [cm_held EXCEPT ![k] = @ \ {i}]
    /\ IF clean
       THEN cm_idle' = cm_idle \cup {i} /\ UNCHANGED cm_closed
       ELSE cm_closed' = cm_closed \cup {i} /\ UNCHANGED cm_idle
    /\ cm_last' = Did("return_connection", {})
    /\ UNCHANGED <<cm_target, cm_cache, cm_mutex, cm_call, cm_discarded>>

\* mutant: the pool is emptied with the cache
cache_and_pool_cleared ==
    /\ unlocked
    /\ cm_cache' = {}
    /\ cm_idle' = {}
    /\ cm_closed' = cm_closed \cup cm_idle
    /\ cm_last' = Did("clear_resolved_cache", cm_cache)
    /\ UNCHANGED <<cm_target, cm_held, cm_mutex, cm_call, cm_discarded>>

clear_resolved_cache ==
    /\ unlocked
    /\ cm_cache' = {}
    /\ cm_last' = Did("clear_resolved_cache", cm_cache)
    /\ UNCHANGED <<cm_target, cm_idle, cm_held, cm_closed, cm_mutex, cm_call,
                   cm_discarded>>

\* mutant: the pooled connections stay where they are
pool_kept == UNCHANGED <<cm_idle, cm_closed>>

\* every pooled connection is closed and discarded
discard_pool ==
    /\ cm_idle' = {}
    /\ cm_closed' = cm_closed \cup cm_idle

reset ==
    /\ unlocked
    /\ discard_pool
    /\ cm_cache' = {}
    /\ cm_discarded' = cm_discarded \cup cm_idle
    /\ cm_last' = Did("reset", cm_cache)
    /\ UNCHANGED <<cm_target, cm_held, cm_mutex, cm_call>>

InitCM == InitAll
NextCM ==
    /\ \/ \E k \in Caller, host \in Host, use_proxy, cache_resolved \in BOOLEAN :
              get_connection(k, host, use_proxy, cache_resolved)
       \/ \E k \in Caller : hand_out(k)
       \/ \E k \in Caller, i \in Instance, clean \in BOOLEAN :
              return_connection(k, i, clean)
       \/ clear_resolved_cache
       \/ reset
    /\ UNCHANGED server_vars
SpecCM == InitCM /\ [][NextCM]_vars

(***************************************************************************)
(* What the properties speak of, stated on the wire format rather than by  *)
(* the code's own tests.                                                   *)
(***************************************************************************)
Count(tr, e) == Cardinality({i \in 1 .. Len(tr) : tr[i] = e})
Has(tr, e) == \E i \in 1 .. Len(tr) : tr[i] = e

\* the methods that carry a body
BodyMethods == {POST, PUT}

\* the Content-Length header of a header list: the first one, in any spelling
HasContentLength(headers) ==
    \E i \in 1 .. Len(headers) : headers[i].name \in ContentLengthNames
DeclaredValue(headers) ==
    headers[CHOOSE i \in 1 .. Len(headers) :
                /\ headers[i].name \in ContentLengthNames
                /\ \A j \in 1 .. i - 1 : headers[j].name \notin ContentLengthNames].value

\* a non-negative integer: one or more digits
IsNumber(v) == v # <<>> /\ \A i \in 1 .. Len(v) : v[i] \in Digit

\* the headers of connection c are completely parsed
HeadersComplete(c) == parser_[c] = "done"

\* c's request carries a body and declares its length as a valid number
DeclaresLength(c) ==
    /\ HeadersComplete(c)
    /\ request_[c].method \in BodyMethods
    /\ HasContentLength(request_[c].headers)
    /\ IsNumber(DeclaredValue(request_[c].headers))
DeclaredLength(c) == DecValue(DeclaredValue(request_[c].headers))

ReadEvents == {"read_headers", "read_body"}
ReadOps == {"async_read_some", "async_read"}

\* the 400 reply is what the connection writes, and it never called the handler
Answered400(c) ==
    /\ response_[c] = "bad_request"
    /\ Count(trace[c], "write") = 1
    /\ handler_calls[c] = 0
    /\ ~Has(trace[c], "handler")

NoBodyRead(c) ==
    /\ ~Has(trace[c], "read_body")
    /\ pending[c].handler # "handle_read_body_contents"
    /\ ready[c].handler # "handle_read_body_contents"

\* no read is issued once the response write has been issued
NoReadAfterWrite(c) ==
    /\ \A i, j \in 1 .. Len(trace[c]) :
          (i < j /\ trace[c][i] = "write") => trace[c][j] \notin ReadEvents
    /\ Has(trace[c], "write") => pending[c].op \notin ReadOps

\* handle_write has run on a successful write
WriteHandled(c) ==
    /\ Has(trace[c], "write_done")
    /\ pending[c].op = "none"
    /\ ready[c].handler = "none"

(***************************************************************************)
(* C3: a request with complete headers whose method carries a body and     *)
(* which has no Content-Length header, in any spelling of the name, is     *)
(* answered 400 Bad Request; the handler is never called and no body read  *)
(* is scheduled.                                                           *)
(***************************************************************************)
C3_MissingContentLengthIs400 ==
    \A c \in Conn :
        (/\ HeadersComplete(c)
         /\ request_[c].method \in BodyMethods
         /\ ~HasContentLength(request_[c].headers))
            => (Answered400(c) /\ NoBodyRead(c) /\ NoReadAfterWrite(c))

C3_Witness ==
    \E c \in Conn :
        /\ HeadersComplete(c)
        /\ request_[c].method = PUT
        /\ request_[c].headers = <<[name |-> MaxForwards, value |-> <<"1">>]>>
        /\ Has(trace[c], "shutdown")

(***************************************************************************)
(* C5: when the parser reports a failure on a header read, the first or a  *)
(* later one, the connection writes 400 Bad Request, never calls the       *)
(* handler, issues no further read and, the write done, shuts the socket   *)
(* down.                                                                   *)
(***************************************************************************)
C5_ParseFailureIs400 ==
    \A c \in Conn :
        parser_[c] = "failed"
            => /\ Answered400(c)
               /\ NoBodyRead(c)
               /\ NoReadAfterWrite(c)
               /\ WriteHandled(c) => Count(trace[c], "shutdown") = 1

C5_Witness ==
    \E c \in Conn :
        /\ parser_[c] = "failed"
        /\ Count(trace[c], "read_headers") >= 2
        /\ WriteHandled(c)
        /\ socket_[c] = "shutdown"

(***************************************************************************)
(* C6: a request that carries a body and declares Content-Length 0 has its *)
(* handler called exactly once, with an empty body, from the completion of *)
(* the header read; no body read is scheduled.                             *)
(***************************************************************************)
C6_ZeroLengthDispatchesAtOnce ==
    \A c \in Conn :
        (DeclaresLength(c) /\ DeclaredLength(c) = 0)
            => /\ handler_calls[c] = 1
               /\ handler_saw[c].body = <<>>
               /\ handler_saw[c] = request_[c]
               /\ NoBodyRead(c)
               /\ \E n \in 1 .. Len(trace[c]) - 2 :
                     /\ \A i \in 1 .. n : trace[c][i] = "read_headers"
                     /\ trace[c][n + 1] = "handler"
                     /\ trace[c][n + 2] = "write"

C6_Witness ==
    \E c \in Conn :
        /\ DeclaresLength(c) /\ DeclaredLength(c) = 0
        /\ DeclaredValue(request_[c].headers) = <<"0", "0">>
        /\ handler_calls[c] = 1
        /\ wire[c] # <<>>
        /\ Has(trace[c], "shutdown")

(***************************************************************************)
(* C7: the callbacks of one connection never run at the same time, on      *)
(* however many workers; callbacks of different connections may.           *)
(***************************************************************************)
C7_CallbacksSerialised ==
    \A c \in Conn : Cardinality({t \in Thread : running[t] = c}) <= 1

\* both workers run callbacks, of different connections, while a further
\* handler of the first connection is posted and held back
C7_Witness ==
    /\ running[1] = 1
    /\ running[2] = 2
    /\ ready[1].handler # "none"

(***************************************************************************)
(* C8: the operations of one connection come in the order header reads,    *)
(* body reads, handler, response write, shutdown.  No body read is issued  *)
(* before the headers are complete; the handler is not called before the   *)
(* headers are complete and the declared body has been read; the write     *)
(* follows the handler's return or the building of the 400 reply; no read  *)
(* follows the write; the shutdown follows the completion of the write.    *)
(***************************************************************************)
Rank(e) ==
    CASE e = "read_headers" -> 1
      [] e = "read_body" -> 2
      [] e = "handler" -> 3
      [] e = "write" -> 4
      [] e = "write_done" -> 5
      [] e = "shutdown" -> 6

C8_OperationsInOrder ==
    \A c \in Conn :
        LET tr == trace[c]
        IN  /\ \A i, j \in 1 .. Len(tr) : i < j => Rank(tr[i]) <= Rank(tr[j])
            /\ \A e \in {"handler", "write", "write_done", "shutdown"} : Count(tr, e) <= 1
            /\ Has(tr, "read_body") => HeadersComplete(c)
            /\ Has(tr, "handler") =>
                  /\ HeadersComplete(c)
                  /\ pending[c].op \notin ReadOps
                  /\ (DeclaresLength(c) /\ DeclaredLength(c) > 0)
                        => Len(payloads[c]) >= DeclaredLength(c)
            /\ \A i \in 1 .. Len(tr) :
                  tr[i] = "write" =>
                      \/ i > 1 /\ tr[i - 1] = "handler"
                      \/ response_[c] = "bad_request" /\ ~Has(tr, "handler")
            /\ NoReadAfterWrite(c)
            /\ Has(tr, "shutdown") => Has(tr, "write_done")

C8_Witness ==
    \E c \in Conn :
        trace[c] = <<"read_headers", "read_headers", "read_body", "read_body",
                     "handler", "write", "write_done", "shutdown">>

(***************************************************************************)
(* C1: a request that carries a body and declares Content-Length N > 0 has *)
(* its handler called exactly once, not before N body octets have been     *)
(* read and at the read completion that brings the count to N or more,     *)
(* however the octets are spread over the reads; the socket is shut down   *)
(* at most once.                                                           *)
(***************************************************************************)
C1_HandlerOnceWhenBodyRead ==
    \A c \in Conn :
        (DeclaresLength(c) /\ DeclaredLength(c) > 0)
            => /\ handler_calls[c] <= 1
               /\ handler_calls[c] = 1 => Len(payloads[c]) >= DeclaredLength(c)
               /\ Len(payloads[c]) >= DeclaredLength(c) => handler_calls[c] = 1
               /\ Count(trace[c], "shutdown") <= 1

(***************************************************************************)
(* C2: when the handler is called, the body of the request is as long as   *)
(* the Content-Length the request declares, and empty when it declares     *)
(* none or 0.                                                              *)
(***************************************************************************)
C2_BodyLengthIsDeclared ==
    \A c \in Conn :
        handler_calls[c] > 0
            => Len(handler_saw[c].body) =
                  (IF DeclaresLength(c) THEN DeclaredLength(c) ELSE 0)

(***************************************************************************)
(* C4: a request that carries a body and whose Content-Length value is not *)
(* a non-negative integer (no digits, other characters, a negative number) *)
(* is answered 400 Bad Request; the handler is never called and no body    *)
(* read is scheduled.                                                      *)
(***************************************************************************)
C4_InvalidContentLengthIs400 ==
    \A c \in Conn :
        (/\ HeadersComplete(c)
         /\ request_[c].method \in BodyMethods
         /\ HasContentLength(request_[c].headers)
         /\ ~IsNumber(DeclaredValue(request_[c].headers)))
            => (Answered400(c) /\ NoBodyRead(c))

(***************************************************************************)
(* C9: the request handed to the handler is the same however the stream is *)
(* split over the reads: two connections that receive the same stream hand *)
(* the same request to their handlers.  Only connections whose body is     *)
(* made of the payloads they read are compared: those that appended stale  *)
(* or indeterminate chars of buffer_ are left aside.                       *)
(***************************************************************************)
C9_SameRequestHoweverSplit ==
    \A c1, c2 \in Conn :
        (/\ stream[c1] = stream[c2]
         /\ handler_calls[c1] > 0 /\ handler_calls[c2] > 0
         /\ ~tainted[c1] /\ ~tainted[c2]
         /\ handler_saw[c1].body = payloads[c1]
         /\ handler_saw[c2].body = payloads[c2])
            => handler_saw[c1] = handler_saw[c2]

(***************************************************************************)
(* C10: a successful body read that delivers k octets appends those k      *)
(* octets and nothing else to request.body: the body is the concatenation  *)
(* of the payloads received.                                               *)
(***************************************************************************)
C10_BodyIsPayloadsReceived ==
    \A c \in Conn : request_[c].body = payloads[c]

(***************************************************************************)
(* C11: a request with complete headers whose method carries no body (GET, *)
(* HEAD, DELETE) has its handler called exactly once from the completion   *)
(* of the header read, with the request as parsed, whether its             *)
(* Content-Length header is absent, valid or invalid; no body read is      *)
(* issued and the reply is not the stock 400.                              *)
(***************************************************************************)
NoBodyMethods == {GET, HEAD, DELETE}

\* the handler was called once while only header reads had been issued
HandledFromHeaderRead(c) ==
    /\ handler_calls[c] = 1
    /\ Count(trace[c], "handler") = 1
    /\ \E k \in 1 .. Len(trace[c]) :
          /\ trace[c][k] = "handler"
          /\ k > 1
          /\ \A i \in 1 .. k - 1 : trace[c][i] = "read_headers"

C11_NoBodyMethodDispatchesAtOnce ==
    \A c \in Conn :
        (HeadersComplete(c) /\ request_[c].method \in NoBodyMethods)
            => /\ HandledFromHeaderRead(c)
               /\ handler_saw[c] = request_[c]
               /\ request_[c].body = <<>>
               /\ NoBodyRead(c)
               /\ NoReadAfterWrite(c)
               /\ response_[c] \in HandlerReplies

\* DELETE with a Content-Length that is no number, and octets after the head
C11_Witness ==
    \E c \in Conn :
        /\ HeadersComplete(c)
        /\ request_[c].method = DELETE
        /\ HasContentLength(request_[c].headers)
        /\ ~IsNumber(DeclaredValue(request_[c].headers))
        /\ wire[c] # <<>>
        /\ Has(trace[c], "shutdown")

(***************************************************************************)
(* C12: a transport error is terminal.  Once a header read, a body read or *)
(* a write has completed with an error, the connection issues no read and  *)
(* no write, calls the handler no more, writes no reply, does not shut the *)
(* socket down and tries nothing again: nothing is outstanding and the     *)
(* history of its operations stays as it was.                              *)
(***************************************************************************)
C12_TransportErrorIsTerminal ==
    [][\A c \in Conn :
          errors[c] > 0
              => /\ pending[c] = NoOp /\ pending'[c] = NoOp
                 /\ trace'[c] = trace[c]
                 /\ handler_calls'[c] = handler_calls[c]
                 /\ response_'[c] = response_[c]
                 /\ socket_'[c] = socket_[c] /\ socket_[c] = "open"
                 /\ errors'[c] = 1
                 /\ completions'[c] = completions[c]]_vars

\* the write of the handler's reply failed and handle_write has returned
C12_Witness ==
    \E c \in Conn :
        /\ errors[c] = 1
        /\ Has(trace[c], "handler")
        /\ ready[c] = NoCompletion
        /\ \A t \in Thread : running[t] # c
        /\ socket_[c] = "open"

(***************************************************************************)
(* C13: once the write of the reply, the handler's or the stock 400, has   *)
(* completed without error and handle_write has run, the socket has been   *)
(* shut down in both directions exactly once, as the last thing the        *)
(* connection did, whether or not the shutdown itself succeeded, and no    *)
(* operation is outstanding: the connection is closed.                     *)
(***************************************************************************)
C13_ShutdownAfterWrite ==
    \A c \in Conn :
        /\ (Has(trace[c], "write_done") /\ ready[c].handler # "handle_write")
              => /\ Count(trace[c], "shutdown") = 1
                 /\ Count(trace[c], "write_done") = 1
                 /\ Len(trace[c]) >= 2
                 /\ trace[c][Len(trace[c])] = "shutdown"
                 /\ trace[c][Len(trace[c]) - 1] = "write_done"
                 /\ pending[c] = NoOp
                 /\ ready[c] = NoCompletion
                 /\ errors[c] = 0
        /\ Has(trace[c], "shutdown") => Has(trace[c], "write_done")
        /\ socket_[c] = "shutdown" => Has(trace[c], "shutdown")

\* the stock 400 was written and the shutdown that followed failed
C13_Witness ==
    \E c \in Conn :
        /\ response_[c] = "bad_request"
        /\ WriteHandled(c)
        /\ Has(trace[c], "shutdown")
        /\ socket_[c] = "open"
        /\ \A t \in Thread : running[t] # c

(***************************************************************************)
(* C14: every transport error delivered to a completion callback is        *)
(* reported to the handler's logging hook: the callback that receives an   *)
(* error code calls handler_.log once.                                     *)
(***************************************************************************)
C14_TransportErrorsLogged ==
    [][\A c \in Conn :
          (ready[c].ec /\ ready'[c] = NoCompletion)
              => log_calls'[c] = log_calls[c] + 1]_vars

(***************************************************************************)
(* C15: however the get_connection, return and reset calls of concurrent   *)
(* callers interleave, a connection handed to one caller is handed to no   *)
(* other caller until the first has returned it: no two callers hold the   *)
(* same connection, and a connection a caller holds is neither in the pool *)
(* nor selected for another caller.                                        *)
(***************************************************************************)
C15_HandlesExclusive ==
    /\ \A j, k \in Caller : j # k => cm_held[j] \cap cm_held[k] = {}
    /\ \A k \in Caller : cm_held[k] \cap cm_idle = {}
    /\ \A j, k \in Caller : cm_call[j].pick \notin cm_held[k]
    /\ \A j, k \in Caller :
          (j # k /\ cm_call[j].phase = "selected") => cm_call[j].pick # cm_call[k].pick

\* one caller holds a connection while get_connection selects, for the
\* other, a connection to the same target that was returned to the pool
C15_Witness ==
    \E i \in cm_held[1] :
        /\ cm_call[2].phase = "selected"
        /\ cm_call[2].pick \in cm_idle
        /\ cm_target[i] = cm_target[cm_call[2].pick]

(***************************************************************************)
(* C16: after reset() no get_connection returns or selects a connection    *)
(* that was in the pool when reset() ran: those are closed, and none is    *)
(* idle or held afterwards; when reset() has just returned, the pool and   *)
(* the cache of resolved addresses are empty.                              *)
(***************************************************************************)
C16_ResetDiscardsPool ==
    /\ \A k \in Caller :
          /\ cm_held[k] \cap cm_discarded = {}
          /\ cm_call[k].pick \notin cm_discarded
    /\ cm_idle \cap cm_discarded = {}
    /\ cm_discarded \subseteq cm_closed
    /\ cm_last.name = "reset" => (cm_cache = {} /\ cm_idle = {})

\* after a reset() that discarded a pooled connection and dropped a cached
\* address, a caller got a connection to the same target
C16_Witness ==
    \E i \in cm_discarded, k \in Caller :
        \E j \in cm_held[k] :
            /\ cm_target[j] = cm_target[i]
            /\ cm_cache = {}

(***************************************************************************)
(* C17: clear_resolved_cache() empties the cache of resolved addresses and *)
(* changes nothing else: the idle connections of the pool, the connections *)
(* handed out and the closed ones are what they were.                      *)
(***************************************************************************)
C17_ClearCacheLeavesPool ==
    [][cm_last'.name = "clear_resolved_cache"
          => /\ cm_cache' = {}
             /\ cm_last'.dropped = cm_cache
             /\ cm_idle' = cm_idle
             /\ cm_held' = cm_held
             /\ cm_closed' = cm_closed
             /\ cm_target' = cm_target
             /\ cm_call' = cm_call]_vars

\* the call dropped a cached address while one connection was idle and
\* another handed out
C17_Witness ==
    /\ cm_last.name = "clear_resolved_cache"
    /\ cm_last.dropped # {}
    /\ cm_cache = {}
    /\ cm_idle # {}
    /\ \E k \in Caller : cm_held[k] # {}

(***************************************************************************)
(* C18: as long as the parser reports the head incomplete, every header    *)
(* read handled is followed by exactly one further header read, the parser *)
(* and the request going on from where the reads before left them; the     *)
(* handler is not called and no reply is written.                          *)
(***************************************************************************)
\* the parser of c has seen neither the end of the head nor a malformed unit
StillParsing(c) == started[c] /\ parser_[c] \notin {"done", "failed"}

\* the units of c's stream that handle_read_headers has been given
Parsed(c) ==
    SubSeq(stream[c], 1, Len(stream[c]) - Len(wire[c]) - ready[c].bytes_transferred)

C18_IncompleteHeadReadsOn ==
    \A c \in Conn :
        StillParsing(c)
            => /\ handler_calls[c] = 0
               /\ response_[c] = "empty"
               /\ \A i \in 1 .. Len(trace[c]) : trace[c][i] = "read_headers"
               /\ LET whole == parse_headers("method_start", EmptyRequest, Parsed(c))
                  IN  /\ whole.done = "indeterminate"
                      /\ parser_[c] = whole.state
                      /\ request_[c] = whole.request
               /\ errors[c] = 0
                    => /\ (pending[c] = AsyncReadSome("handle_read_headers", 0))
                             # (ready[c].handler = "handle_read_headers")
                       /\ pending[c] = NoOp \/ ready[c] = NoCompletion
                       /\ Len(trace[c])
                             = completions[c] + (IF ready[c] = NoCompletion THEN 1 ELSE 0)

\* method and a header came in two reads, the third read is outstanding
C18_Witness ==
    \E c \in Conn :
        /\ StillParsing(c)
        /\ request_[c].method # <<>>
        /\ request_[c].headers # <<>>
        /\ completions[c] = 2
        /\ pending[c] = AsyncReadSome("handle_read_headers", 0)

(***************************************************************************)
(* C19: while a read or a write is outstanding, or its callback is posted  *)
(* or running, the handler bound to it owns the connection, which is       *)
(* therefore not destroyed; the owners are the creator, as long as it      *)
(* keeps its pointer, and these handlers, nothing else.  Once nothing is   *)
(* outstanding and the creator has let go, no owner is left and the        *)
(* connection is destroyed.                                                *)
(***************************************************************************)
Destroyed(c) == use_count[c] = 0

\* the operations and callbacks of c that are under way
InFlight(c) ==
    (IF pending[c].op # "none" THEN 1 ELSE 0)
    + (IF ready[c].handler # "none" THEN 1 ELSE 0)
    + Cardinality({t \in Thread : running[t] = c})

C19_AliveWhileOperationPending ==
    \A c \in Conn :
        /\ InFlight(c) > 0 => ~Destroyed(c)
        /\ use_count[c] = (IF owner[c] THEN 1 ELSE 0) + InFlight(c)
        /\ (InFlight(c) = 0 /\ ~owner[c]) => Destroyed(c)
        /\ ~started[c] => owner[c]

\* the creator has let go: the body read outstanding is all that keeps the
\* connection
C19_Witness ==
    \E c \in Conn :
        /\ ~owner[c]
        /\ pending[c].op = "async_read"
        /\ use_count[c] = 1

(***************************************************************************)
(* C20: a connection has at most one asynchronous operation outstanding.   *)
(* start() issues exactly one read, a callback runs only when the          *)
(* operation it belongs to has completed and issues at most one new one:   *)
(* the operations issued are never more than one ahead of the operations   *)
(* completed.                                                              *)
(***************************************************************************)
IssueEvents == {"read_headers", "read_body", "write"}

\* the operations c has issued
Issued(c) == Cardinality({i \in 1 .. Len(trace[c]) : trace[c][i] \in IssueEvents})

Outstanding(c) == Issued(c) - completions[c]

C20_OneOperationOutstanding ==
    \A c \in Conn :
        /\ Outstanding(c) \in {0, 1}
        /\ Outstanding(c) = 1 <=> pending[c].op # "none"
        /\ ~started[c] => Issued(c) = 0
        /\ (started[c] /\ completions[c] = 0)
              => (Issued(c) = 1 /\ trace[c] = <<"read_headers">>)
        /\ (ready[c].handler # "none" \/ \E t \in Thread : running[t] = c)
              => Issued(c) <= completions[c] + 1

\* headers and body have been read, the handler called, the write is the one
\* operation outstanding
C20_Witness ==
    \E c \in Conn, t \in Thread :
        /\ running[t] = c
        /\ completions[c] >= 3
        /\ Has(trace[c], "read_body")
        /\ pending[c] = AsyncWrite
        /\ Outstanding(c) = 1

=============================================================================
